---- MODULE Spec2Model ----
(***************************************************************************)
(* rbxts-transformer-setget: the rewrite pass that turns property-style    *)
(* reads and writes of accessor-backed members into explicit method calls. *)
(*                                                                         *)
(* The typed syntax tree is a value of nested records; a node of the input *)
(* tree is identified by its path from the root (the sequence of child     *)
(* indexes), which stands for the node's identity and its parent pointer.  *)
(* Three revisions of the pass are modelled side by side:                  *)
(*   "T"  src/src/transformer.ts with src/src/util.ts lines 1-118          *)
(*   "P3" src/unnamed/part_003 lines 1-276 with src/src/util.ts 120-282    *)
(*   "P2" src/unnamed/part_002                                             *)
(*   "P1" src/unnamed/part_001 with src/unnamed/part_000                   *)
(***************************************************************************)
EXTENDS Integers, Sequences, FiniteSets, TLC

VARIABLES input, config, impl, pc, output, log

vars == <<input, config, impl, pc, output, log>>

(***************************************************************************)
(* Syntax nodes.  Every node has the same shape: kind, name (identifier    *)
(* text, member name or declared name), op (operator token), opt (a ?.     *)
(* token is present) and kids (the children forEachChild / visitEachChild  *)
(* walk, in order).  The name identifier of a member access is the field   *)
(* name: it has no children and no rule matches it.                        *)
(***************************************************************************)
Node(kind, name, op, opt, kids) ==
    [kind |-> kind, name |-> name, op |-> op, opt |-> opt, kids |-> kids]

NoNode == Node("None", "", "", FALSE, <<>>)

createIdentifier(text) == Node("Identifier", text, "", FALSE, <<>>)

createNumericLiteral(value) == Node("NumericLiteral", value, "", FALSE, <<>>)

createPropertyAccessExpression(expression, name) ==
    Node("PropertyAccessExpression", name, "", FALSE, <<expression>>)

\* updatePropertyAccessExpression keeps the ?. token of the node it updates
updatePropertyAccessExpression(node, expression, name) ==
    Node("PropertyAccessExpression", name, "", node.opt, <<expression>>)

createCallExpression(expression, arguments) ==
    Node("CallExpression", "", "", FALSE, <<expression>> \o arguments)

createCallChain(expression, questionDotToken, arguments) ==
    Node("CallExpression", "", "", questionDotToken, <<expression>> \o arguments)

createBinaryExpression(left, operator, right) ==
    Node("BinaryExpression", "", operator, FALSE, <<left, right>>)

createMethodDeclaration(name, members) ==
    Node("MethodDeclaration", name, "", FALSE, members)

\* Nodes only the input tree holds (the parser builds them, not the pass)
PropertyAccess(expression, name, opt) ==
    Node("PropertyAccessExpression", name, "", opt, <<expression>>)

PostfixUnary(operand, operator) ==
    Node("PostfixUnaryExpression", "", operator, FALSE, <<operand>>)

PrefixUnary(operator, operand) ==
    Node("PrefixUnaryExpression", "", operator, FALSE, <<operand>>)

Parenthesized(expression) ==
    Node("ParenthesizedExpression", "", "", FALSE, <<expression>>)

AsExpression(expression) ==
    Node("AsExpression", "", "", FALSE, <<expression>>)

NewExpression(className) ==
    Node("NewExpression", "", "", FALSE, <<createIdentifier(className)>>)

GetAccessor(name, body) == Node("GetAccessor", name, "", FALSE, body)

SetAccessor(name, body) == Node("SetAccessor", name, "", FALSE, body)

\* A parameter of an accessor or method: node.parameters comes first among kids
Parameter(name) == Node("Parameter", name, "", FALSE, <<>>)

ExpressionStatement(expression) ==
    Node("ExpressionStatement", "", "", FALSE, <<expression>>)

Block(statements) == Node("Block", "", "", FALSE, statements)

RECURSIVE NodeAt(_, _)
NodeAt(root, p) ==
    IF p = <<>> THEN root ELSE NodeAt(root.kids[Head(p)], Tail(p))

Parent(p) == SubSeq(p, 1, Len(p) - 1)

Left(p) == Append(p, 1)

Right(p) == Append(p, 2)

(***************************************************************************)
(* Operator tokens.                                                        *)
(***************************************************************************)
\* A lookup table with two entries exchanged
assignmentTokenLookupExchanged ==
    [x \in {"+=", "-=", "*=", "**=", "/=", "%=", "<<=", ">>=", ">>>=",
            "&=", "|=", "||=", "&&=", "??=", "^="} |->
        CASE x = "+=" -> "+"
          [] x = "-=" -> "-"
          [] x = "*=" -> "*"
          [] x = "**=" -> "**"
          [] x = "/=" -> "/"
          [] x = "%=" -> "%"
          [] x = "<<=" -> "<<"
          [] x = ">>=" -> ">>"
          [] x = ">>>=" -> ">>>"
          [] x = "&=" -> "&"
          [] x = "|=" -> "|"
          [] x = "||=" -> "&&"
          [] x = "&&=" -> "||"
          [] x = "??=" -> "??"
          [] x = "^=" -> "^"]

assignmentTokenLookup ==
    [x \in {"+=", "-=", "*=", "**=", "/=", "%=", "<<=", ">>=", ">>>=",
            "&=", "|=", "||=", "&&=", "??=", "^="} |->
        CASE x = "+=" -> "+"
          [] x = "-=" -> "-"
          [] x = "*=" -> "*"
          [] x = "**=" -> "**"
          [] x = "/=" -> "/"
          [] x = "%=" -> "%"
          [] x = "<<=" -> "<<"
          [] x = ">>=" -> ">>"
          [] x = ">>>=" -> ">>>"
          [] x = "&=" -> "&"
          [] x = "|=" -> "|"
          [] x = "||=" -> "||"
          [] x = "&&=" -> "&&"
          [] x = "??=" -> "??"
          [] x = "^=" -> "^"]

postfixUnaryOperatorLookup ==
    [x \in {"++", "--"} |-> IF x = "++" THEN "+" ELSE "-"]

isCompoundAssignment(operator) == operator \in DOMAIN assignmentTokenLookup

isAssignmentOperator(operator) == operator = "=" \/ isCompoundAssignment(operator)

isLeftHandSideExpression(node) ==
    node.kind \in {"PropertyAccessExpression", "Identifier", "NumericLiteral",
                   "ParenthesizedExpression", "NewExpression", "CallExpression"}

\* ts.isAssignmentExpression(node, excludeCompoundAssignment)
isAssignmentExpression(node, excludeCompoundAssignment) ==
    /\ node.kind = "BinaryExpression"
    /\ IF excludeCompoundAssignment THEN node.op = "="
       ELSE isAssignmentOperator(node.op)
    /\ isLeftHandSideExpression(node.kids[1])

\* The node tests the queries below are called with
Check(check, node) ==
    CASE check = "isPropertyAccessExpression" -> node.kind = "PropertyAccessExpression"
      [] check = "isNewExpression" -> node.kind = "NewExpression"
      [] check = "isBinaryExpression" -> node.kind = "BinaryExpression"
      [] check = "isAssignmentExpression" -> isAssignmentExpression(node, FALSE)

(***************************************************************************)
(* Tree queries (util.ts).  A result that may be undefined is a set with   *)
(* at most one path.                                                       *)
(***************************************************************************)
isTuple(node) == node.kind \in {"AsExpression", "ParenthesizedExpression"}

RECURSIVE getAncestorOfType(_, _, _)
getAncestorOfType(root, currentNode, check) ==
    IF currentNode = <<>> THEN {}
    ELSE LET parent == Parent(currentNode) IN
         IF Check(check, NodeAt(root, parent)) THEN {parent}
         ELSE IF isTuple(NodeAt(root, parent)) /\ Append(parent, 1) = currentNode
              THEN getAncestorOfType(root, parent, check)
              ELSE {}

RECURSIVE getChildOfType(_, _, _), getChildOfTypeFrom(_, _, _, _)
getChildOfTypeFrom(root, node, check, i) ==
    IF i > Len(NodeAt(root, node).kids) THEN {}
    ELSE LET child == Append(node, i)
             foundChild == IF Check(check, NodeAt(root, child)) THEN {child}
                           ELSE getChildOfType(root, child, check)
         IN IF foundChild # {} THEN foundChild
            ELSE getChildOfTypeFrom(root, node, check, i + 1)

getChildOfType(root, node, check) == getChildOfTypeFrom(root, node, check, 1)

\* A search that stops at the direct children
RECURSIVE getDirectChildrenOfType(_, _, _, _)
getDirectChildrenOfType(root, node, check, i) ==
    IF i > Len(NodeAt(root, node).kids) THEN <<>>
    ELSE (IF Check(check, NodeAt(root, Append(node, i)))
          THEN <<Append(node, i)>> ELSE <<>>)
         \o getDirectChildrenOfType(root, node, check, i + 1)

getChildrenOfType(root, node, check) == getDirectChildrenOfType(root, node, check, 1)

RECURSIVE getDescendantsOfType(_, _, _), getDescendantsOfTypeFrom(_, _, _, _)
getDescendantsOfTypeFrom(root, node, check, i) ==
    IF i > Len(NodeAt(root, node).kids) THEN <<>>
    ELSE LET child == Append(node, i) IN
         (IF Check(check, NodeAt(root, child)) THEN <<child>> ELSE <<>>)
         \o getDescendantsOfType(root, child, check)
         \o getDescendantsOfTypeFrom(root, node, check, i + 1)

getDescendantsOfType(root, node, check) ==
    getDescendantsOfTypeFrom(root, node, check, 1)

RECURSIVE isChildOfNode(_, _, _), isChildOfNodeFrom(_, _, _, _)
isChildOfNodeFrom(root, parent, node, i) ==
    IF i > Len(NodeAt(root, parent).kids) THEN FALSE
    ELSE LET child == Append(parent, i) IN
         \/ child = node
         \/ isChildOfNode(root, child, node)
         \/ isChildOfNodeFrom(root, parent, node, i + 1)

isChildOfNode(root, parent, node) == isChildOfNodeFrom(root, parent, node, 1)

(***************************************************************************)
(* The symbol oracle (the type checker the pass queries).  The program     *)
(* under transformation declares the types and members below; a            *)
(* declaration carries its kind, the type whose body holds it and the      *)
(* path of its source file.                                                *)
(***************************************************************************)
Declaration(acc, parent, fileName) ==
    [acc |-> acc, parent |-> parent, fileName |-> fileName]

UserFile == <<"src", "widget.ts">>

DependencyFile == <<"node_modules", "lib", "index.d.ts">>

TypeNames == {"Widget", "Readable", "Instance", "BasePart", "Tool", "Lib"}

\* ts.isClassLike(declaration.parent) / ts.isInterfaceDeclaration(decl.parent)
isClassLike(typeName) == typeName \in {"Widget", "Tool", "Lib"}

isInterfaceDeclaration(typeName) == ~isClassLike(typeName)

\* type.getBaseTypes()
getBaseTypes(typeName) ==
    IF typeName \in {"BasePart", "Tool"} THEN <<"Instance">> ELSE <<>>

MemberNames ==
    {"value", "ro", "wo", "field", "idl", "dep", "depro", "dyn", "sup", "Name",
     "part"}

\* typeChecker.getSymbolAtLocation: "dyn" is a member of an untyped value
getSymbolAtLocation(name) == IF name = "dyn" THEN {} ELSE {name}

\* nodeSymbol.declarations
declarations(symbol) ==
    CASE symbol = "value" -> <<Declaration("get", "Widget", UserFile),
                               Declaration("set", "Widget", UserFile)>>
      [] symbol = "ro" -> <<Declaration("get", "Widget", UserFile)>>
      [] symbol = "wo" -> <<Declaration("set", "Widget", UserFile)>>
      [] symbol = "field" -> <<Declaration("prop", "Widget", UserFile)>>
      [] symbol = "idl" -> <<Declaration("get", "Readable", UserFile),
                             Declaration("set", "Readable", UserFile)>>
      [] symbol = "dep" -> <<Declaration("get", "Lib", DependencyFile),
                             Declaration("set", "Lib", DependencyFile)>>
      [] symbol = "depro" -> <<Declaration("get", "Lib", DependencyFile)>>
      [] symbol = "sup" -> <<Declaration("prop", "Readable", UserFile)>>
      [] symbol = "Name" -> <<Declaration("get", "BasePart", UserFile),
                              Declaration("set", "BasePart", UserFile)>>
      [] symbol = "part" -> <<Declaration("get", "Tool", UserFile),
                              Declaration("set", "Tool", UserFile)>>
      [] OTHER -> <<>>

\* typeChecker.getTypeAtLocation(node.expression).getProperty(name): the
\* declarations of the property of the target's static type; "sup" is read
\* through a supertype reference whose implementation is the class Widget
getProperty(name) ==
    IF name = "dyn" THEN {}
    ELSE IF name = "sup"
         THEN {<<Declaration("get", "Widget", UserFile),
                 Declaration("set", "Widget", UserFile)>>}
         ELSE {declarations(name)}

\* SourceFile.fileName.includes("node_modules")
isFromNodeModules(declaration) ==
    \E i \in DOMAIN declaration.fileName : declaration.fileName[i] = "node_modules"

\* util.ts 93-118: the last getter and setter among the symbol's declarations,
\* the loop stopping once both are found.  A declaration that may be
\* undefined is a sequence of length at most one.
RECURSIVE scanDeclarations(_, _, _, _)
scanDeclarations(decls, i, getterDeclaration, setterDeclaration) ==
    IF i > Len(decls) \/ (getterDeclaration # <<>> /\ setterDeclaration # <<>>)
    THEN [getter |-> getterDeclaration, setter |-> setterDeclaration]
    ELSE scanDeclarations(decls, i + 1,
             IF decls[i].acc = "get" THEN <<decls[i]>> ELSE getterDeclaration,
             IF decls[i].acc = "set" THEN <<decls[i]>> ELSE setterDeclaration)

getGetterSetterDeclarations(node) ==
    LET nodeSymbol == getSymbolAtLocation(node.name) IN
    IF nodeSymbol = {} THEN [getter |-> <<>>, setter |-> <<>>]
    ELSE scanDeclarations(declarations(node.name), 1, <<>>, <<>>)

\* util.ts 242-282: class-like declarations first, then the fallback through
\* the property of the target's static type
RECURSIVE scanClassDeclarations(_, _, _, _)
scanClassDeclarations(decls, i, getterDeclaration, setterDeclaration) ==
    IF i > Len(decls)
    THEN [getter |-> getterDeclaration, setter |-> setterDeclaration]
    ELSE scanClassDeclarations(decls, i + 1,
             IF decls[i].acc = "get" /\ isClassLike(decls[i].parent)
             THEN <<decls[i]>> ELSE getterDeclaration,
             IF decls[i].acc = "set" /\ isClassLike(decls[i].parent)
             THEN <<decls[i]>> ELSE setterDeclaration)

RECURSIVE find(_, _, _)
find(decls, acc, i) ==
    IF i > Len(decls) THEN <<>>
    ELSE IF decls[i].acc = acc THEN <<decls[i]>> ELSE find(decls, acc, i + 1)

getGetterSetterDeclarations2(node) ==
    LET nodeSymbol == getSymbolAtLocation(node.name) IN
    IF nodeSymbol = {} THEN [getter |-> <<>>, setter |-> <<>>]
    ELSE LET direct == scanClassDeclarations(declarations(node.name), 1, <<>>, <<>>)
             property == getProperty(node.name)
         IN IF property = {} THEN direct
            ELSE LET decls == CHOOSE d \in property : TRUE
                     getter == find(decls, "get", 1)
                     setter == find(decls, "set", 1)
                 IN [getter |-> IF direct.getter # <<>> THEN direct.getter ELSE getter,
                     setter |-> IF direct.setter # <<>> THEN direct.setter ELSE setter]

\* A test of the type's own name only, its base types not followed
doesTypeExtendInstanceByName(typeName) == typeName = "Instance"

RECURSIVE doesTypeExtendInstance(_), anyBaseExtendsInstance(_, _)
anyBaseExtendsInstance(bases, i) ==
    IF i > Len(bases) THEN FALSE
    ELSE doesTypeExtendInstance(bases[i]) \/ anyBaseExtendsInstance(bases, i + 1)

doesTypeExtendInstance(typeName) ==
    IF typeName = "Instance" THEN TRUE
    ELSE anyBaseExtendsInstance(getBaseTypes(typeName), 1)

isFromInterfaceCheck(decl) ==
    /\ decl # <<>>
    /\ isInterfaceDeclaration(decl[1].parent)
    /\ doesTypeExtendInstance(decl[1].parent)

isFromInterface(getter, setter) ==
    isFromInterfaceCheck(getter) \/ isFromInterfaceCheck(setter)

(***************************************************************************)
(* The rewrite engine.  A visit returns the node it built, the events of   *)
(* the run so far in order (a node handed to visitNode, a line written by  *)
(* writeLine) and whether process.exit(1) ended the run.                   *)
(***************************************************************************)
DEFAULT_PREFIX == "__"

SETTER_PREFIX == "set"

GETTER_PREFIX == "get"

\* config.customPrefix ?? DEFAULT_PREFIX (an absent option is the empty sequence)
prefixOf(cfg) ==
    IF cfg.customPrefix = <<>> THEN DEFAULT_PREFIX ELSE cfg.customPrefix[1]

\* A setter name that leaves the configured prefix out
setterNameDefault(cfg, name) == DEFAULT_PREFIX \o SETTER_PREFIX \o name

setterName(cfg, name) == prefixOf(cfg) \o SETTER_PREFIX \o name

getterName(cfg, name) == prefixOf(cfg) \o GETTER_PREFIX \o name

Event(ev, at, text) == [ev |-> ev, at |-> at, text |-> text]

Ok(node, events) == [node |-> node, log |-> events, exit |-> FALSE]

\* The diagnostic written, the run not ended
FatalWithoutExit(at, messages) ==
    [node |-> NoNode,
     log |-> [i \in 1..Len(messages) |-> Event("write", at, messages[i])],
     exit |-> FALSE]

\* writeLine(...messages); process.exit(1)
Fatal(at, messages) ==
    [node |-> NoNode,
     log |-> [i \in 1..Len(messages) |-> Event("write", at, messages[i])],
     exit |-> TRUE]

\* The events of calls made one after the other, up to the one that exits
RECURSIVE RunLog(_)
RunLog(results) ==
    IF results = <<>> THEN <<>>
    ELSE IF Head(results).exit THEN Head(results).log
         ELSE Head(results).log \o RunLog(Tail(results))

Exited(results) == \E i \in DOMAIN results : results[i].exit

\* A rule that goes on after a call has ended the run
RECURSIVE RunLogAfterExit(_)
RunLogAfterExit(results) ==
    IF results = <<>> THEN <<>>
    ELSE Head(results).log \o RunLogAfterExit(Tail(results))

BuiltAfterExit(node, results) ==
    [node |-> node, log |-> RunLogAfterExit(results), exit |-> Exited(results)]

\* The result of a rule that made the calls `results` and built `node`
Built(node, results) ==
    [node |-> IF Exited(results) THEN NoNode ELSE node,
     log |-> RunLog(results),
     exit |-> Exited(results)]

RECURSIVE visitNode(_, _), visitEachChild(_, _, _, _)

\* ts.visitEachChild: the children in order, each through visitNode
visitEachChild(ctx, node, i, done) ==
    IF i > Len(NodeAt(ctx.root, node).kids) \/ Exited(done) THEN done
    ELSE visitEachChild(ctx, node, i + 1, Append(done, visitNode(ctx, Append(node, i))))

\* TransformContext.transform
transform(ctx, node) ==
    LET visited == visitEachChild(ctx, node, 1, <<>>) IN
    Built([NodeAt(ctx.root, node) EXCEPT
               !.kids = [i \in 1..Len(visited) |-> visited[i].node]],
          visited)

\* src/src/transformer.ts 41-91
visitPropertyAccessExpression(ctx, p) ==
    LET node == NodeAt(ctx.root, p)
        found == getGetterSetterDeclarations(node)
        getterDeclaration == found.getter
        setterDeclaration == found.setter
    IN
    IF \/ (getterDeclaration # <<>> /\ isFromNodeModules(getterDeclaration[1]))
       \/ (setterDeclaration # <<>> /\ isFromNodeModules(setterDeclaration[1]))
    THEN transform(ctx, p)
    ELSE
    LET assignmentExpression == getAncestorOfType(ctx.root, p, "isAssignmentExpression")
        isSetter ==
            /\ setterDeclaration # <<>>
            /\ assignmentExpression # {}
            /\ \E a \in assignmentExpression :
                   p = Left(a) \/ isChildOfNode(ctx.root, Left(a), p)
        t == transform(ctx, p)
    IN
    IF ~isSetter
    THEN Built(createCallChain(
                   updatePropertyAccessExpression(node, t.node.kids[1],
                       getterName(ctx.config, node.name)),
                   node.opt, <<>>),
               <<t>>)
    ELSE Built(updatePropertyAccessExpression(node, t.node.kids[1],
                   setterName(ctx.config, node.name)),
               <<t>>)

MissingGetterCompound == "Required getter declaration for compound assignment"

MissingGetterPostfix == "Required getter declaration for postfix unary expression"

NewInCompound == "Cannot compile a compound assignment with a new expression inside"

NewInPostfix == "Cannot compile a postfix unary expression with a new expression inside"

Suggestion == "Suggestion: extract new expression into a variable."

\* src/src/transformer.ts 120-203
visitBinaryExpression(ctx, p) ==
    LET node == NodeAt(ctx.root, p)
        propertyAccessExpression ==
            getChildOfType(ctx.root, p, "isPropertyAccessExpression")
    IN
    IF propertyAccessExpression = {} THEN transform(ctx, p)
    ELSE
    LET o == CHOOSE x \in propertyAccessExpression : TRUE
        original == NodeAt(ctx.root, o)
        found == getGetterSetterDeclarations(original)
        getterDeclaration == found.getter
        setterDeclaration == found.setter
        SETTER_IDENTIFIER == setterName(ctx.config, original.name)
        GETTER_IDENTIFIER == getterName(ctx.config, original.name)
    IN
    IF setterDeclaration # <<>> /\ isFromNodeModules(setterDeclaration[1])
    THEN transform(ctx, p)
    ELSE IF node.op = "="
    THEN LET t1 == transform(ctx, o)
             t2 == transform(ctx, p)
         IN Built(createCallExpression(
                      createPropertyAccessExpression(t1.node.kids[1], SETTER_IDENTIFIER),
                      <<t2.node.kids[2]>>),
                  <<t1, t2>>)
    ELSE IF isAssignmentExpression(node, FALSE) /\ isCompoundAssignment(node.op)
    THEN IF getterDeclaration = <<>>
         THEN Fatal(p, <<MissingGetterCompound>>)
         ELSE IF Len(getDescendantsOfType(ctx.root, o, "isNewExpression")) > 0
         THEN Fatal(p, <<NewInCompound, Suggestion>>)
         ELSE LET t1 == transform(ctx, o)
                  t2 == transform(ctx, o)
                  t3 == transform(ctx, p)
              IN Built(createCallExpression(
                           createPropertyAccessExpression(t1.node.kids[1], SETTER_IDENTIFIER),
                           <<createBinaryExpression(
                               createCallExpression(
                                   createPropertyAccessExpression(t2.node.kids[1],
                                       GETTER_IDENTIFIER),
                                   <<>>),
                               assignmentTokenLookup[node.op],
                               t3.node.kids[2])>>),
                       <<t1, t2, t3>>)
    ELSE transform(ctx, p)

\* A postfix rule that transforms the receiver of the getter call only
visitPostfixUnaryExpressionMixed(ctx, p) ==
    LET node == NodeAt(ctx.root, p)
        propertyAccessExpression ==
            getChildOfType(ctx.root, p, "isPropertyAccessExpression")
    IN
    IF propertyAccessExpression = {} THEN transform(ctx, p)
    ELSE
    LET o == CHOOSE x \in propertyAccessExpression : TRUE
        original == NodeAt(ctx.root, o)
        found == getGetterSetterDeclarations(original)
        t == transform(ctx, o)
    IN
    IF found.setter # <<>> /\ isFromNodeModules(found.setter[1])
    THEN transform(ctx, p)
    ELSE IF found.getter = <<>>
    THEN Fatal(p, <<MissingGetterPostfix>>)
    ELSE IF Len(getDescendantsOfType(ctx.root, o, "isNewExpression")) > 0
    THEN Fatal(p, <<NewInPostfix, Suggestion>>)
    ELSE Built(createCallExpression(
                   createPropertyAccessExpression(original.kids[1],
                       setterName(ctx.config, original.name)),
                   <<createBinaryExpression(
                       createCallExpression(
                           createPropertyAccessExpression(t.node.kids[1],
                               getterName(ctx.config, original.name)),
                           <<>>),
                       postfixUnaryOperatorLookup[node.op],
                       createNumericLiteral("1"))>>),
               <<t>>)

\* src/src/transformer.ts 213-277
visitPostfixUnaryExpression(ctx, p) ==
    LET node == NodeAt(ctx.root, p)
        propertyAccessExpression ==
            getChildOfType(ctx.root, p, "isPropertyAccessExpression")
    IN
    IF propertyAccessExpression = {} THEN transform(ctx, p)
    ELSE
    LET o == CHOOSE x \in propertyAccessExpression : TRUE
        original == NodeAt(ctx.root, o)
        found == getGetterSetterDeclarations(original)
        getterDeclaration == found.getter
        setterDeclaration == found.setter
        SETTER_IDENTIFIER == setterName(ctx.config, original.name)
        GETTER_IDENTIFIER == getterName(ctx.config, original.name)
    IN
    IF setterDeclaration # <<>> /\ isFromNodeModules(setterDeclaration[1])
    THEN transform(ctx, p)
    ELSE IF getterDeclaration = <<>>
    THEN Fatal(p, <<MissingGetterPostfix>>)
    ELSE IF Len(getDescendantsOfType(ctx.root, o, "isNewExpression")) > 0
    THEN Fatal(p, <<NewInPostfix, Suggestion>>)
    ELSE Ok(createCallExpression(
                createPropertyAccessExpression(original.kids[1], SETTER_IDENTIFIER),
                <<createBinaryExpression(
                    createCallExpression(
                        createPropertyAccessExpression(original.kids[1], GETTER_IDENTIFIER),
                        <<>>),
                    postfixUnaryOperatorLookup[node.op],
                    createNumericLiteral("1"))>>),
            <<>>)

\* src/src/transformer.ts 279-298
visitSetAccessor(ctx, p) ==
    LET node == NodeAt(ctx.root, p)
        t == transform(ctx, p)
    IN Built(createMethodDeclaration(setterName(ctx.config, node.name), t.node.kids),
             <<t>>)

\* src/src/transformer.ts 300-319
visitGetAccessor(ctx, p) ==
    LET node == NodeAt(ctx.root, p)
        t == transform(ctx, p)
    IN Built(createMethodDeclaration(getterName(ctx.config, node.name), t.node.kids),
             <<t>>)

\* src/src/transformer.ts 321-335
visitExpression(ctx, p) ==
    LET node == NodeAt(ctx.root, p) IN
    IF node.kind = "PropertyAccessExpression" THEN visitPropertyAccessExpression(ctx, p)
    ELSE IF node.kind = "BinaryExpression" THEN visitBinaryExpression(ctx, p)
    ELSE IF node.kind = "PostfixUnaryExpression" THEN visitPostfixUnaryExpression(ctx, p)
    ELSE transform(ctx, p)

(***************************************************************************)
(* Revision "P3": src/unnamed/part_003 lines 1-276.                        *)
(***************************************************************************)
MissingGetterCompound3 == "Missing getter for compound assignment"

MissingGetterPostfix3 == "Missing getter for postfix expression"

NewInCompound3 == "Cannot compile compound assignment with a new expression"

NewInPostfix3 == "Cannot compile postfix expression with a new expression"

\* part_003 49-94
visitPropertyAccessExpression3(ctx, p) ==
    LET node == NodeAt(ctx.root, p)
        found == getGetterSetterDeclarations2(node)
        getterDeclaration == found.getter
        setterDeclaration == found.setter
    IN
    IF /\ (getterDeclaration = <<>> \/ isInterfaceDeclaration(getterDeclaration[1].parent))
       /\ (setterDeclaration = <<>> \/ isInterfaceDeclaration(setterDeclaration[1].parent))
    THEN transform(ctx, p)
    ELSE IF isFromInterface(getterDeclaration, setterDeclaration)
    THEN transform(ctx, p)
    ELSE
    LET assignmentExpression == getAncestorOfType(ctx.root, p, "isAssignmentExpression")
        isSetter ==
            /\ setterDeclaration # <<>>
            /\ assignmentExpression # {}
            /\ \E a \in assignmentExpression :
                   p = Left(a) \/ isChildOfNode(ctx.root, Left(a), p)
        t == transform(ctx, p)
    IN
    IF ~isSetter
    THEN Built(createCallChain(
                   updatePropertyAccessExpression(node, t.node.kids[1],
                       getterName(ctx.config, node.name)),
                   node.opt, <<>>),
               <<t>>)
    ELSE Built(updatePropertyAccessExpression(node, t.node.kids[1],
                   setterName(ctx.config, node.name)),
               <<t>>)

\* part_003 114-179
visitBinaryExpression3(ctx, p) ==
    LET node == NodeAt(ctx.root, p)
        propertyAccess == getChildOfType(ctx.root, p, "isPropertyAccessExpression")
    IN
    IF propertyAccess = {} THEN transform(ctx, p)
    ELSE
    LET o == CHOOSE x \in propertyAccess : TRUE
        original == NodeAt(ctx.root, o)
        found == getGetterSetterDeclarations2(original)
        getterDeclaration == found.getter
        setterDeclaration == found.setter
        setterIdentifier == setterName(ctx.config, original.name)
        getterIdentifier == getterName(ctx.config, original.name)
    IN
    IF getterDeclaration = <<>> /\ setterDeclaration = <<>> THEN transform(ctx, p)
    ELSE IF isFromInterface(getterDeclaration, setterDeclaration) THEN transform(ctx, p)
    ELSE IF /\ (node.op = "=" \/ isAssignmentExpression(node, FALSE))
            /\ setterDeclaration = <<>>
    THEN transform(ctx, p)
    ELSE IF node.op = "="
    THEN LET t1 == transform(ctx, Append(o, 1))
             t2 == transform(ctx, Right(p))
         IN Built(createCallExpression(
                      createPropertyAccessExpression(t1.node, setterIdentifier),
                      <<t2.node>>),
                  <<t1, t2>>)
    ELSE IF isAssignmentExpression(node, FALSE) /\ isCompoundAssignment(node.op)
    THEN IF getterDeclaration = <<>>
         THEN Fatal(p, <<MissingGetterCompound3>>)
         ELSE IF Len(getDescendantsOfType(ctx.root, o, "isNewExpression")) > 0
         THEN Fatal(p, <<NewInCompound3, Suggestion>>)
         ELSE LET t1 == transform(ctx, Append(o, 1))
                  t2 == transform(ctx, Append(o, 1))
                  t3 == transform(ctx, Right(p))
              IN Built(createCallExpression(
                           createPropertyAccessExpression(t1.node, setterIdentifier),
                           <<createBinaryExpression(
                               createCallExpression(
                                   createPropertyAccessExpression(t2.node, getterIdentifier),
                                   <<>>),
                               assignmentTokenLookup[node.op],
                               t3.node)>>),
                       <<t1, t2, t3>>)
    ELSE transform(ctx, p)

\* part_003 186-226
visitPostfixUnaryExpression3(ctx, p) ==
    LET node == NodeAt(ctx.root, p)
        propertyAccess == getChildOfType(ctx.root, p, "isPropertyAccessExpression")
    IN
    IF propertyAccess = {} THEN transform(ctx, p)
    ELSE
    LET o == CHOOSE x \in propertyAccess : TRUE
        original == NodeAt(ctx.root, o)
        found == getGetterSetterDeclarations2(original)
        getterDeclaration == found.getter
        setterDeclaration == found.setter
        setterIdentifier == setterName(ctx.config, original.name)
        getterIdentifier == getterName(ctx.config, original.name)
    IN
    IF getterDeclaration = <<>> /\ setterDeclaration = <<>> THEN transform(ctx, p)
    ELSE IF isFromInterface(getterDeclaration, setterDeclaration) THEN transform(ctx, p)
    ELSE IF getterDeclaration = <<>>
    THEN Fatal(p, <<MissingGetterPostfix3>>)
    ELSE IF Len(getDescendantsOfType(ctx.root, o, "isNewExpression")) > 0
    THEN Fatal(p, <<NewInPostfix3, Suggestion>>)
    ELSE Ok(createCallExpression(
                createPropertyAccessExpression(original.kids[1], setterIdentifier),
                <<createBinaryExpression(
                    createCallExpression(
                        createPropertyAccessExpression(original.kids[1], getterIdentifier),
                        <<>>),
                    postfixUnaryOperatorLookup[node.op],
                    createNumericLiteral("1"))>>),
            <<>>)

\* part_003 264-269 (visitSetAccessor and visitGetAccessor, part_003 228-262,
\* build the same method declarations as transformer.ts 279-319)
visitExpression3(ctx, p) ==
    LET node == NodeAt(ctx.root, p) IN
    IF node.kind = "PropertyAccessExpression" THEN visitPropertyAccessExpression3(ctx, p)
    ELSE IF node.kind = "BinaryExpression" THEN visitBinaryExpression3(ctx, p)
    ELSE IF node.kind = "PostfixUnaryExpression" THEN visitPostfixUnaryExpression3(ctx, p)
    ELSE transform(ctx, p)

(***************************************************************************)
(* Revision "P2": src/unnamed/part_002.  Its getGetterSetterDeclarations   *)
(* takes the symbol; the declaration loop is the one of util.ts 105-117.   *)
(***************************************************************************)
\* part_002 37-85
visitPropertyAccessExpression2(ctx, p) ==
    LET node == NodeAt(ctx.root, p)
        nodeSymbol == getSymbolAtLocation(node.name)
    IN
    IF nodeSymbol = {} THEN transform(ctx, p)
    ELSE
    LET found == scanDeclarations(declarations(node.name), 1, <<>>, <<>>)
        getterDeclaration == found.getter
        setterDeclaration == found.setter
        isGetterOrSetter == getterDeclaration # <<>> \/ setterDeclaration # <<>>
    IN
    IF ~isGetterOrSetter THEN transform(ctx, p)
    ELSE
    LET assignmentExpression == getAncestorOfType(ctx.root, p, "isAssignmentExpression")
        isSetter ==
            /\ setterDeclaration # <<>>
            /\ assignmentExpression # {}
            /\ \E a \in assignmentExpression :
                   p = Left(a) \/ isChildOfNode(ctx.root, Left(a), p)
        t == transform(ctx, Append(p, 1))
    IN
    IF ~isSetter
    THEN Built(createCallChain(
                   updatePropertyAccessExpression(node, t.node,
                       getterName(ctx.config, node.name)),
                   node.opt, <<>>),
               <<t>>)
    ELSE Built(updatePropertyAccessExpression(node, t.node,
                   setterName(ctx.config, node.name)),
               <<t>>)

\* part_002 87-111
visitAssignmentExpression2(ctx, p) ==
    LET node == NodeAt(ctx.root, p)
        propertyAccessExpression ==
            getChildOfType(ctx.root, p, "isPropertyAccessExpression")
    IN
    IF propertyAccessExpression = {} THEN transform(ctx, p)
    ELSE
    LET o == CHOOSE x \in propertyAccessExpression : TRUE
        original == NodeAt(ctx.root, o)
        nodeSymbol == getSymbolAtLocation(original.name)
    IN
    IF nodeSymbol = {} THEN transform(ctx, p)
    ELSE
    LET found == scanDeclarations(declarations(original.name), 1, <<>>, <<>>)
        isSetter == found.setter # <<>>
    IN
    IF ~isSetter THEN transform(ctx, p)
    ELSE LET t == transform(ctx, p)
         IN Built(createCallExpression(t.node.kids[1], <<t.node.kids[2]>>), <<t>>)

\* part_002 155-176
visitNode2(ctx, p) ==
    LET node == NodeAt(ctx.root, p) IN
    IF node.kind = "GetAccessor" THEN visitGetAccessor(ctx, p)
    ELSE IF node.kind = "PropertyAccessExpression" THEN visitPropertyAccessExpression2(ctx, p)
    ELSE IF node.kind = "SetAccessor" THEN visitSetAccessor(ctx, p)
    ELSE IF isAssignmentExpression(node, FALSE) THEN visitAssignmentExpression2(ctx, p)
    ELSE transform(ctx, p)

(***************************************************************************)
(* Revision "P1": src/unnamed/part_001, with the tree queries of           *)
(* src/unnamed/part_000.  Its option is config.internalPrefix.             *)
(***************************************************************************)
prefixOf1(cfg) ==
    IF cfg.internalPrefix = <<>> THEN DEFAULT_PREFIX ELSE cfg.internalPrefix[1]

setterName1(cfg, name) == prefixOf1(cfg) \o SETTER_PREFIX \o name

getterName1(cfg, name) == prefixOf1(cfg) \o GETTER_PREFIX \o name

\* part_001 32-91
visitPropertyAccessExpression1(ctx, p) ==
    LET node == NodeAt(ctx.root, p)
        nodeSymbol == getSymbolAtLocation(node.name)
    IN
    IF nodeSymbol = {} THEN transform(ctx, p)
    ELSE
    LET found == scanDeclarations(declarations(node.name), 1, <<>>, <<>>)
        getterDeclaration == found.getter
        setterDeclaration == found.setter
        isGetterOrSetter == getterDeclaration # <<>> \/ setterDeclaration # <<>>
    IN
    IF ~isGetterOrSetter THEN transform(ctx, p)
    ELSE
    LET binaryExpression == getAncestorOfType(ctx.root, p, "isBinaryExpression")
        isSetter ==
            /\ setterDeclaration # <<>>
            /\ binaryExpression # {}
            /\ \E b \in binaryExpression :
                   /\ NodeAt(ctx.root, b).op = "="
                   /\ (p = Left(b) \/ isChildOfNode(ctx.root, Left(b), p))
        t == transform(ctx, Append(p, 1))
    IN
    IF ~isSetter
    THEN Built(createCallChain(
                   updatePropertyAccessExpression(node, t.node,
                       getterName1(ctx.config, node.name)),
                   node.opt, <<>>),
               <<t>>)
    ELSE Built(updatePropertyAccessExpression(node, t.node,
                   setterName1(ctx.config, node.name)),
               <<t>>)

\* part_001 93-137: the call is built from node.left and node.right and then
\* transformed, which hands both to visitNode
visitBinaryExpression1(ctx, p) ==
    LET node == NodeAt(ctx.root, p)
        propertyAccessExpression ==
            getChildOfType(ctx.root, p, "isPropertyAccessExpression")
    IN
    IF propertyAccessExpression = {} THEN transform(ctx, p)
    ELSE
    LET o == CHOOSE x \in propertyAccessExpression : TRUE
        original == NodeAt(ctx.root, o)
        nodeSymbol == getSymbolAtLocation(original.name)
    IN
    IF nodeSymbol = {} THEN transform(ctx, p)
    ELSE
    LET found == scanDeclarations(declarations(original.name), 1, <<>>, <<>>)
        isGetterOrSetter == found.getter # <<>> \/ found.setter # <<>>
        isSetter == found.setter # <<>> /\ node.op = "="
    IN
    IF ~isGetterOrSetter THEN transform(ctx, p)
    ELSE IF ~isSetter THEN transform(ctx, p)
    ELSE LET left == visitNode(ctx, Left(p))
             right == visitNode(ctx, Right(p))
         IN Built(createCallExpression(left.node, <<right.node>>), <<left, right>>)

\* part_001 139-156: the method keeps node.parameters and node.body as they are
visitSetAccessor1(ctx, p) ==
    LET node == NodeAt(ctx.root, p)
    IN Ok(createMethodDeclaration(setterName1(ctx.config, node.name), node.kids), <<>>)

\* part_001 158-175: no parameters, node.body as it is
visitGetAccessor1(ctx, p) ==
    LET node == NodeAt(ctx.root, p)
        isBody(n) == n.kind # "Parameter"
    IN Ok(createMethodDeclaration(getterName1(ctx.config, node.name),
                                  SelectSeq(node.kids, isBody)),
          <<>>)

\* part_001 177-198
visitNode1(ctx, p) ==
    LET node == NodeAt(ctx.root, p) IN
    IF node.kind = "GetAccessor" THEN visitGetAccessor1(ctx, p)
    ELSE IF node.kind = "PropertyAccessExpression" THEN visitPropertyAccessExpression1(ctx, p)
    ELSE IF node.kind = "SetAccessor" THEN visitSetAccessor1(ctx, p)
    ELSE IF node.kind = "BinaryExpression" THEN visitBinaryExpression1(ctx, p)
    ELSE transform(ctx, p)

\* transformer.ts 337-354 and part_003 271-276: accessor declarations first,
\* then expressions; ctx.impl names the revision that runs
visitNode(ctx, p) ==
    LET node == NodeAt(ctx.root, p)
        r == IF ctx.impl = "P1" THEN visitNode1(ctx, p)
             ELSE IF ctx.impl = "P2" THEN visitNode2(ctx, p)
             ELSE IF node.kind = "GetAccessor" THEN visitGetAccessor(ctx, p)
             ELSE IF node.kind = "SetAccessor" THEN visitSetAccessor(ctx, p)
             ELSE IF ctx.impl = "P3" THEN visitExpression3(ctx, p)
             ELSE visitExpression(ctx, p)
    IN [r EXCEPT !.log = <<Event("visit", p, node.kind)>> \o r.log]

(***************************************************************************)
(* The inputs: one statement or declaration per run.                       *)
(***************************************************************************)
\* The longest chain of member accesses inside the target of an access
MaxChain == 1

Bases == {createIdentifier("a"), NewExpression("Widget")}

ChainMembers == {"value"}

RECURSIVE Targets(_)
Targets(k) ==
    IF k = 0 THEN Bases
    ELSE Targets(k - 1) \cup
         {PropertyAccess(t, m, FALSE) : t \in Targets(k - 1), m \in ChainMembers}

Members ==
    {"value", "ro", "wo", "field", "idl", "dep", "depro", "dyn", "Name", "part"}

Accesses ==
    {PropertyAccess(t, m, o) : t \in Targets(MaxChain), m \in Members, o \in BOOLEAN}

\* An assignment target or increment operand is never an optional chain
LeftSides ==
    {x \in Accesses : ~x.opt}
    \cup {Parenthesized(x) : x \in {y \in Accesses : ~y.opt}}
    \cup {createIdentifier("x")}

RightSides ==
    {createNumericLiteral("5"), NewExpression("Widget"),
     PropertyAccess(createIdentifier("c"), "value", FALSE),
     PropertyAccess(createIdentifier("c"), "field", FALSE),
     PropertyAccess(createIdentifier("c"), "depro", FALSE)}

CoreOperators == {"=", "+=", "??=", "==", "+"}

BinaryExpressions ==
    {createBinaryExpression(l, op, r) :
        l \in LeftSides, op \in CoreOperators, r \in RightSides}
    \cup
    {createBinaryExpression(PropertyAccess(createIdentifier("a"), m, FALSE), op,
                            createNumericLiteral("5")) :
        m \in {"value", "wo"}, op \in DOMAIN assignmentTokenLookup}

UnaryExpressions ==
    {PostfixUnary(l, op) : l \in LeftSides, op \in {"++", "--"}}
    \cup {PrefixUnary(op, l) : l \in LeftSides, op \in {"++", "--"}}

AccessorDeclarations ==
    {GetAccessor("value", <<PropertyAccess(createIdentifier("this"), m, FALSE)>>) :
        m \in {"value", "field"}}
    \cup
    {SetAccessor("value",
        <<Parameter("v"),
          createBinaryExpression(PropertyAccess(createIdentifier("this"), m, FALSE),
                                 "=", createIdentifier("v"))>>) :
        m \in {"value", "field"}}

\* Two statements in a row, for what a run does after its first statement
Statements ==
    {ExpressionStatement(e) :
        e \in {PropertyAccess(createIdentifier("a"), "value", FALSE),
               PostfixUnary(PropertyAccess(createIdentifier("a"), "value", FALSE), "++"),
               PostfixUnary(PropertyAccess(createIdentifier("a"), "wo", FALSE), "++"),
               createBinaryExpression(
                   PropertyAccess(createIdentifier("a"), "wo", FALSE), "+=",
                   createNumericLiteral("5")),
               createBinaryExpression(
                   PropertyAccess(NewExpression("Widget"), "value", FALSE), "+=",
                   createNumericLiteral("5"))}}

Blocks == {Block(<<s1, s2>>) : s1 \in Statements, s2 \in Statements}

Inputs ==
    Accesses \cup BinaryExpressions \cup UnaryExpressions \cup AccessorDeclarations
    \cup Blocks

\* The option absent, or set under the name the revision at hand reads
Configs ==
    {[customPrefix |-> <<>>, internalPrefix |-> <<>>],
     [customPrefix |-> <<"_">>, internalPrefix |-> <<>>],
     [customPrefix |-> <<>>, internalPrefix |-> <<"_">>]}

(***************************************************************************)
(* The run: one traversal of the input by one revision of the pass, to     *)
(* completion or to process.exit(1).                                       *)
(***************************************************************************)
Init ==
    /\ input \in Inputs
    /\ config \in Configs
    /\ impl = "none"
    /\ pc = "ready"
    /\ output = NoNode
    /\ log = <<>>

Run(revision) ==
    /\ pc = "ready"
    /\ LET r == visitNode([root |-> input, config |-> config, impl |-> revision], <<>>)
       IN /\ pc' = IF r.exit THEN "aborted" ELSE "done"
          /\ output' = r.node
          /\ log' = r.log
    /\ impl' = revision
    /\ UNCHANGED <<input, config>>

\* src/src/transformer.ts
RunT == Run("T")

\* src/unnamed/part_003
RunP3 == Run("P3")

\* src/unnamed/part_002
RunP2 == Run("P2")

\* src/unnamed/part_001
RunP1 == Run("P1")

Next == RunT \/ RunP3 \/ RunP2 \/ RunP1

Spec == Init /\ [][Next]_vars

(***************************************************************************)
(* Vocabulary of the properties.                                           *)
(***************************************************************************)
RECURSIVE Subtrees(_)
Subtrees(n) ==
    {n} \cup UNION {Subtrees(n.kids[i]) : i \in DOMAIN n.kids}

\* How many times t occurs as a subtree of n
RECURSIVE Occurrences(_, _), OccurrencesFrom(_, _, _)
OccurrencesFrom(kids, t, i) ==
    IF i > Len(kids) THEN 0
    ELSE Occurrences(kids[i], t) + OccurrencesFrom(kids, t, i + 1)

Occurrences(n, t) == (IF n = t THEN 1 ELSE 0) + OccurrencesFrom(n.kids, t, 1)

\* How many member accesses of n carry the name nm
RECURSIVE AccessCount(_, _), AccessCountFrom(_, _, _)
AccessCountFrom(kids, nm, i) ==
    IF i > Len(kids) THEN 0
    ELSE AccessCount(kids[i], nm) + AccessCountFrom(kids, nm, i + 1)

AccessCount(n, nm) ==
    (IF n.kind = "PropertyAccessExpression" /\ n.name = nm THEN 1 ELSE 0)
    + AccessCountFrom(n.kids, nm, 1)

\* A synthesized name occurs in n
Names(n, nm) == \E x \in Subtrees(n) : x.name = nm

\* How many times visitNode was handed the node at path p
RECURSIVE VisitCount(_, _)
VisitCount(events, p) ==
    IF events = <<>> THEN 0
    ELSE (IF Head(events).ev = "visit" /\ Head(events).at = p THEN 1 ELSE 0)
         + VisitCount(Tail(events), p)

Wrote(events) == \E i \in DOMAIN events : events[i].ev = "write"

\* The member access an assignment or increment writes: its left side or
\* operand, through parentheses
WrittenAccess(n) ==
    IF n.kids[1].kind = "ParenthesizedExpression" THEN n.kids[1].kids[1] ELSE n.kids[1]

WritesAccess(n) ==
    /\ n.kind \in {"BinaryExpression", "PostfixUnaryExpression"}
    /\ WrittenAccess(n).kind = "PropertyAccessExpression"

IsPlainAssignment(n) == n.kind = "BinaryExpression" /\ n.op = "="

IsCompound(n) == n.kind = "BinaryExpression" /\ isCompoundAssignment(n.op)

IsPostfix(n) == n.kind = "PostfixUnaryExpression"

\* The declarations of the program for a member, whatever their provenance
DeclaresGetter(m) == \E i \in DOMAIN declarations(m) : declarations(m)[i].acc = "get"

DeclaresSetter(m) == \E i \in DOMAIN declarations(m) : declarations(m)[i].acc = "set"

\* The getter call and the setter call the spec names for a target
GetterCall(target, m) ==
    createCallExpression(
        createPropertyAccessExpression(target, getterName(config, m)), <<>>)

SetterCall(target, m, argument) ==
    createCallExpression(
        createPropertyAccessExpression(target, setterName(config, m)), <<argument>>)

\* What the running revision makes of a sub-expression taken alone
Transformed(n) ==
    visitNode([root |-> n, config |-> config, impl |-> impl], <<>>).node

(***************************************************************************)
(* C1.  A member access whose member has neither a getter nor a setter     *)
(* declaration stays a plain member access with the same name: the output  *)
(* holds as many accesses of that name as the input and no synthesized     *)
(* getter or setter name for it.  (transformer.ts, part_003)               *)
(***************************************************************************)
C1_NoAccessorLeftPlain ==
    (pc = "done" /\ impl \in {"T", "P3"}) =>
        \A m \in Members :
            (~DeclaresGetter(m) /\ ~DeclaresSetter(m)) =>
                /\ AccessCount(output, m) = AccessCount(input, m)
                /\ ~Names(output, getterName(config, m))
                /\ ~Names(output, setterName(config, m))

(***************************************************************************)
(* C2.  A member access read on its own whose member has a getter becomes  *)
(* a zero-argument call of prefix+"get"+name, and no accessor-backed       *)
(* access nested in its target is left unrewritten.                        *)
(* (transformer.ts, part_002)                                              *)
(***************************************************************************)
C2_ReadBecomesGetterCall ==
    (/\ pc = "done"
     /\ impl \in {"T", "P2"}
     /\ input \in Accesses
     /\ input.name \in {"value", "ro"}) =>
        /\ output.kind = "CallExpression"
        /\ Len(output.kids) = 1
        /\ output.kids[1].kind = "PropertyAccessExpression"
        /\ output.kids[1].name = getterName(config, input.name)
        /\ \A m \in ChainMembers : AccessCount(output, m) = 0

(***************************************************************************)
(* C3.  No rule synthesizes a setter call for a member that has no setter  *)
(* declaration.  (transformer.ts, part_003)                                *)
(***************************************************************************)
C3_SetterGatedOnSetter ==
    (pc = "done" /\ impl \in {"T", "P3"}) =>
        \A m \in Members :
            ~DeclaresSetter(m) => ~Names(output, setterName(config, m))

(***************************************************************************)
(* C4.  A plain assignment whose left side is an access of a member with   *)
(* a setter becomes target.<prefix>set<Name>(rhs) with one argument, an    *)
(* accessor-backed right-hand side being rewritten to its getter call, and *)
(* the target is handed to the dispatcher exactly once.                    *)
(* (transformer.ts, part_003)                                              *)
(***************************************************************************)
C4_PlainAssignment ==
    (/\ pc = "done"
     /\ impl \in {"T", "P3"}
     /\ IsPlainAssignment(input)
     /\ input.kids[1].kind = "PropertyAccessExpression"
     /\ input.kids[1].name \in {"value", "wo"}) =>
        /\ output.kind = "CallExpression"
        /\ Len(output.kids) = 2
        /\ output.kids[1].kind = "PropertyAccessExpression"
        /\ output.kids[1].name = setterName(config, input.kids[1].name)
        /\ (input.kids[2] = PropertyAccess(createIdentifier("c"), "value", FALSE)
               => output.kids[2] = GetterCall(createIdentifier("c"), "value"))
        /\ VisitCount(log, <<1, 1>>) = 1

(***************************************************************************)
(* C5.  An assignment whose left side holds no member access is never      *)
(* turned into a setter call and keeps its assignment target.              *)
(* (transformer.ts, part_003)                                              *)
(***************************************************************************)
C5_OnlyLeftSideTriggers ==
    (/\ pc = "done"
     /\ impl \in {"T", "P3"}
     /\ input.kind = "BinaryExpression"
     /\ isAssignmentOperator(input.op)
     /\ input.kids[1] = createIdentifier("x")) =>
        /\ output.kind = "BinaryExpression"
        /\ output.op = input.op
        /\ output.kids[1] = input.kids[1]
        /\ \A m \in MemberNames : ~Names(output, setterName(config, m))

(***************************************************************************)
(* Read-modify-write operations of transformer.ts: a compound assignment   *)
(* or postfix operation whose left side or operand is an access of a       *)
(* member declared in the user's own files.                                *)
(***************************************************************************)
UserDeclared(m) ==
    \A i \in DOMAIN declarations(m) : ~isFromNodeModules(declarations(m)[i])

ReadModifyWrite ==
    /\ impl = "T"
    /\ IsCompound(input) \/ IsPostfix(input)
    /\ WritesAccess(input)
    /\ UserDeclared(WrittenAccess(input).name)

Member == WrittenAccess(input).name

Target == WrittenAccess(input).kids[1]

HasNew(n) == \E x \in Subtrees(n) : x.kind = "NewExpression"

LastWritten(events, messages) ==
    /\ Len(events) >= Len(messages)
    /\ \A i \in 1..Len(messages) :
           /\ events[Len(events) - Len(messages) + i].ev = "write"
           /\ events[Len(events) - Len(messages) + i].text = messages[i]

\* The non-assignment counterpart of each compound operator, as the spec lists it
Counterpart(op) ==
    CASE op = "+=" -> "+" [] op = "-=" -> "-" [] op = "*=" -> "*"
      [] op = "**=" -> "**" [] op = "/=" -> "/" [] op = "%=" -> "%"
      [] op = "<<=" -> "<<" [] op = ">>=" -> ">>" [] op = ">>>=" -> ">>>"
      [] op = "&=" -> "&" [] op = "|=" -> "|" [] op = "^=" -> "^"
      [] op = "||=" -> "||" [] op = "&&=" -> "&&" [] op = "??=" -> "??"

(***************************************************************************)
(* C6.  In transformer.ts a compound assignment to a member with a getter  *)
(* and a setter, its target holding no new-expression, becomes             *)
(* target.<setter>(target.<getter>() <op> rhs): <op> the counterpart of    *)
(* the compound operator, the getter call without arguments, target and    *)
(* rhs what the pass makes of them.  `a.value += 5` becomes                *)
(* `a.__setvalue(a.__getvalue() + 5)`.                                     *)
(***************************************************************************)
C6_CompoundAssignment ==
    (/\ ReadModifyWrite
     /\ IsCompound(input)
     /\ DeclaresGetter(Member) /\ DeclaresSetter(Member)
     /\ ~HasNew(Target)) =>
        /\ pc = "done"
        /\ output = SetterCall(Transformed(Target), Member,
                        createBinaryExpression(
                            GetterCall(Transformed(Target), Member),
                            Counterpart(input.op),
                            Transformed(input.kids[2])))
        /\ (Target = createIdentifier("a") /\ input.kids[2] = createNumericLiteral("5"))
               => output = SetterCall(createIdentifier("a"), Member,
                               createBinaryExpression(
                                   GetterCall(createIdentifier("a"), Member),
                                   Counterpart(input.op),
                                   createNumericLiteral("5")))

C6_Witness ==
    /\ ReadModifyWrite
    /\ pc = "done"
    /\ input.op = "??="
    /\ Member = "value"
    /\ Target = PropertyAccess(createIdentifier("a"), "value", FALSE)
    /\ input.kids[2] = PropertyAccess(createIdentifier("c"), "value", FALSE)

(***************************************************************************)
(* C7.  As claimed: a compound assignment or postfix operation on a member *)
(* with a getter and a setter evaluates its target exactly once, that is   *)
(* the rewritten tree holds the target's base `a` as often as the input.   *)
(***************************************************************************)
C7_TargetEvaluatedOnce ==
    (/\ ReadModifyWrite
     /\ pc = "done"
     /\ DeclaresGetter(Member) /\ DeclaresSetter(Member)) =>
        Occurrences(output, createIdentifier("a"))
            = Occurrences(input, createIdentifier("a"))

(***************************************************************************)
(* C7, amended.  The rewritten tree is setter(getter() <op> operand) and   *)
(* holds the target twice, as two identical receivers, one of the getter   *)
(* call and one of the setter call: the target is evaluated twice.  The    *)
(* operand of a postfix operation is the literal 1.                        *)
(***************************************************************************)
C7_TargetCopiedTwice ==
    (/\ ReadModifyWrite
     /\ pc = "done"
     /\ DeclaresGetter(Member) /\ DeclaresSetter(Member)) =>
        /\ output.kind = "CallExpression"
        /\ Len(output.kids) = 2
        /\ output.kids[1] =
               createPropertyAccessExpression(output.kids[1].kids[1],
                                              setterName(config, Member))
        /\ output.kids[2].kind = "BinaryExpression"
        /\ output.kids[2].op =
               (IF IsPostfix(input) THEN (IF input.op = "++" THEN "+" ELSE "-")
                ELSE Counterpart(input.op))
        /\ output.kids[2].kids[1] = GetterCall(output.kids[1].kids[1], Member)
        /\ IsPostfix(input) => output.kids[2].kids[2] = createNumericLiteral("1")
        /\ IsCompound(input) => output.kids[2].kids[2] = Transformed(input.kids[2])
        /\ Occurrences(output, createIdentifier("a"))
               = 2 * Occurrences(input, createIdentifier("a"))

C7_Witness ==
    /\ ReadModifyWrite
    /\ pc = "done"
    /\ IsPostfix(input)
    /\ Member = "value"
    /\ Target = PropertyAccess(createIdentifier("a"), "value", FALSE)
    /\ Occurrences(output, createIdentifier("a")) = 2

(***************************************************************************)
(* C8.  In transformer.ts a compound assignment or postfix operation on a  *)
(* setter-only member writes the missing-getter diagnostic as the last     *)
(* line of the run and aborts it: no node is produced.                     *)
(***************************************************************************)
C8_MissingGetterAborts ==
    (/\ ReadModifyWrite
     /\ DeclaresSetter(Member) /\ ~DeclaresGetter(Member)) =>
        /\ pc = "aborted"
        /\ output = NoNode
        /\ LastWritten(log, <<IF IsPostfix(input) THEN MissingGetterPostfix
                               ELSE MissingGetterCompound>>)

C8_Witness ==
    /\ ReadModifyWrite
    /\ input = PostfixUnary(PropertyAccess(createIdentifier("a"), "wo", FALSE), "++")
    /\ pc = "aborted"
    /\ Wrote(log)

(***************************************************************************)
(* C9.  In transformer.ts a compound assignment or postfix operation on a  *)
(* member with a getter and a setter aborts with the new-expression        *)
(* diagnostic and its suggestion when the target of the access holds a     *)
(* new-expression at any depth; when it holds none the run completes       *)
(* without a diagnostic, a new-expression as right-hand side included.     *)
(***************************************************************************)
C9_NewInTargetAborts ==
    (/\ ReadModifyWrite
     /\ DeclaresGetter(Member) /\ DeclaresSetter(Member)) =>
        IF HasNew(Target)
        THEN /\ pc = "aborted"
             /\ output = NoNode
             /\ LastWritten(log, <<IF IsPostfix(input) THEN NewInPostfix
                                    ELSE NewInCompound, Suggestion>>)
        ELSE /\ pc = "done"
             /\ ~Wrote(log)

C9_Witness ==
    /\ ReadModifyWrite
    /\ IsCompound(input)
    /\ Member = "value"
    /\ Target = PropertyAccess(NewExpression("Widget"), "value", FALSE)
    /\ pc = "aborted"

\* The other half of C9: a new-expression that is only the right-hand side
C9_WitnessRightSide ==
    /\ ReadModifyWrite
    /\ IsCompound(input)
    /\ Member = "value"
    /\ ~HasNew(Target)
    /\ input.kids[2] = NewExpression("Widget")
    /\ pc = "done"

(***************************************************************************)
(* C10.  A compound assignment or postfix operation on a member with no    *)
(* accessor declarations, or with interface-only or external ones, never   *)
(* writes a diagnostic and never aborts: the node is passed through.       *)
(* (transformer.ts, part_003)                                              *)
(***************************************************************************)
C10_OnlyTwoFatalConditions ==
    (/\ pc # "ready"
     /\ impl \in {"T", "P3"}
     /\ IsCompound(input) \/ IsPostfix(input)
     /\ WritesAccess(input)
     /\ WrittenAccess(input).name \in {"field", "dyn", "idl", "dep"}) =>
        /\ pc = "done"
        /\ ~Wrote(log)
        /\ output.kind = input.kind
        /\ output.op = input.op

(***************************************************************************)
(* Outcomes of a run, for comparing two runs: aborted, rewritten into a    *)
(* call, or passed through with the node kind kept.                        *)
(***************************************************************************)
Verdict(r) ==
    IF r.exit THEN "fatal"
    ELSE IF r.node.kind = "CallExpression" THEN "rewritten"
    ELSE "pass-through"

\* What the running revision makes of a statement taken alone
Outcome(n) == visitNode([root |-> n, config |-> config, impl |-> impl], <<>>)

\* t.m += 1 for t.m++ and t.m -= 1 for t.m--
AsCompound(n) ==
    createBinaryExpression(n.kids[1], IF n.op = "++" THEN "+=" ELSE "-=",
                           createNumericLiteral("1"))

(***************************************************************************)
(* C11.  A postfix increment or decrement of a member access has the       *)
(* outcome of the corresponding compound assignment t.m += 1 / t.m -= 1:   *)
(* the same verdict and, when rewritten, the same tree.                    *)
(* (transformer.ts, part_003)                                              *)
(***************************************************************************)
C11_PostfixAsCompound ==
    (/\ pc # "ready"
     /\ impl \in {"T", "P3"}
     /\ IsPostfix(input)
     /\ WritesAccess(input)) =>
        LET r == Outcome(AsCompound(input)) IN
        /\ Verdict([node |-> output, exit |-> pc = "aborted"]) = Verdict(r)
        /\ Verdict(r) = "rewritten" => output = r.node

\* The configured prefix, under the option name the running revision reads
Prefix == IF impl = "P1" THEN prefixOf1(config) ELSE prefixOf(config)

IsAccessor(n) == n.kind \in {"GetAccessor", "SetAccessor"}

Verb(n) == IF n.kind = "GetAccessor" THEN "get" ELSE "set"

(***************************************************************************)
(* C12.  A getter or setter declaration becomes a method declaration named *)
(* prefix+"get"+name resp. prefix+"set"+name whose parameters and body are *)
(* those of the accessor, each as the pass rewrites it: an accessor-backed *)
(* `this.value` read in the body becomes the getter call and an assignment *)
(* `this.value = v` the setter call.  (transformer.ts, part_003, part_001)  *)
(***************************************************************************)
C12_AccessorBecomesMethod ==
    (/\ pc # "ready"
     /\ impl \in {"T", "P3", "P1"}
     /\ IsAccessor(input)) =>
        /\ pc = "done"
        /\ output = createMethodDeclaration(Prefix \o Verb(input) \o input.name,
                        [i \in DOMAIN input.kids |-> Transformed(input.kids[i])])
        /\ \A i \in DOMAIN input.kids :
               /\ input.kids[i] = PropertyAccess(createIdentifier("this"), "value", FALSE)
                      => output.kids[i].kind = "CallExpression"
               /\ input.kids[i].kind = "Parameter" => output.kids[i] = input.kids[i]
               /\ IsPlainAssignment(input.kids[i]) /\ input.kids[i].kids[1].name = "value"
                      => output.kids[i].kind = "CallExpression"

\* Every getter and setter declaration of the member, those of the property of
\* the target's static type included, lies in an interface body
AccessorsOf(decls) == {i \in DOMAIN decls : decls[i].acc \in {"get", "set"}}

InterfaceOnly(m) ==
    /\ AccessorsOf(declarations(m)) # {}
    /\ \A i \in AccessorsOf(declarations(m)) :
           isInterfaceDeclaration(declarations(m)[i].parent)
    /\ \A decls \in getProperty(m) : \A i \in AccessorsOf(decls) :
           isInterfaceDeclaration(decls[i].parent)

\* The accesses of member m are in the output as they were in the input
Unrewritten(m) ==
    /\ AccessCount(output, m) = AccessCount(input, m)
    /\ ~Names(output, Prefix \o "get" \o m)
    /\ ~Names(output, Prefix \o "set" \o m)

(***************************************************************************)
(* C13.  In part_003 a member whose only getter and setter declarations    *)
(* lie in an interface is never rewritten: read, plain assignment,         *)
(* compound assignment and postfix operation all keep the member access    *)
(* and synthesize neither call.                                            *)
(***************************************************************************)
C13_InterfaceAccessorsLeftAlone ==
    (pc = "done" /\ impl = "P3") =>
        \A m \in Members : InterfaceOnly(m) => Unrewritten(m)

\* A getter or a setter declaration of the member lies in a dependency
External(m) ==
    \E i \in AccessorsOf(declarations(m)) : isFromNodeModules(declarations(m)[i])

(***************************************************************************)
(* C14.  In transformer.ts a member whose getter or setter declaration     *)
(* lies in an external dependency is never rewritten: read, plain          *)
(* assignment, compound assignment and postfix operation keep the member   *)
(* access and synthesize neither call, whichever of the two is external.   *)
(***************************************************************************)
C14_ExternalAccessorsLeftAlone ==
    (pc = "done" /\ impl = "T") =>
        \A m \in Members : External(m) => Unrewritten(m)

\* The types of the program that are, or inherit from, the host type Instance
InheritsFromInstance(typeName) == typeName \in {"Instance", "BasePart", "Tool"}

OwningTypes(m) ==
    {declarations(m)[i].parent : i \in AccessorsOf(declarations(m))}

InstanceOwned(m) == \E t \in OwningTypes(m) : InheritsFromInstance(t)

(***************************************************************************)
(* C15.  As claimed: in part_003 a member whose accessors are declared in  *)
(* a type that is or inherits from Instance is left unrewritten in every   *)
(* position, the type being an interface or a class.                       *)
(***************************************************************************)
C15_InstanceMembersLeftAlone ==
    (pc = "done" /\ impl = "P3") =>
        \A m \in Members : InstanceOwned(m) => Unrewritten(m)

(***************************************************************************)
(* C15, amended.  A member whose accessors are declared in an interface    *)
(* that is or inherits from Instance is left unrewritten in every          *)
(* position and never aborts the run; accessors declared in a class are    *)
(* rewritten like those of any class, a class inheriting from Instance     *)
(* included: the read `a.part` becomes `a.__getpart()`.                    *)
(***************************************************************************)
C15_InstanceInterfaceLeftAlone ==
    (pc # "ready" /\ impl = "P3") =>
        \A m \in Members : InstanceOwned(m) =>
            IF \A t \in OwningTypes(m) : isInterfaceDeclaration(t)
            THEN AccessCount(input, m) > 0 => (pc = "done" /\ Unrewritten(m))
            ELSE input = PropertyAccess(createIdentifier("a"), m, FALSE)
                     => output = GetterCall(createIdentifier("a"), m)

C15_Witness ==
    /\ impl = "P3"
    /\ pc = "done"
    /\ input = createBinaryExpression(
                   PropertyAccess(createIdentifier("a"), "Name", FALSE), "+=",
                   createNumericLiteral("5"))
    /\ output = input

(***************************************************************************)
(* C16.  Idempotence: the pass run over its own output completes and       *)
(* returns that output unchanged, node for node.                           *)
(* (transformer.ts, part_003)                                              *)
(***************************************************************************)
C16_SecondRunIsNoOp ==
    (pc = "done" /\ impl \in {"T", "P3"}) =>
        /\ ~Outcome(output).exit
        /\ Outcome(output).node = output

\* The events of a run that are written lines
Writes(events) == SelectSeq(events, LAMBDA e : e.ev = "write")

\* The lines one fatal condition of transformer.ts writes
FatalRecords ==
    {<<MissingGetterCompound>>, <<MissingGetterPostfix>>,
     <<NewInCompound, Suggestion>>, <<NewInPostfix, Suggestion>>}

(***************************************************************************)
(* C17.  In transformer.ts a run reports at most one fatal condition and   *)
(* its record ends the run: an aborted run has written the lines of        *)
(* exactly one condition, about the node visited last, as the last events  *)
(* of the run, and returns no tree; a completed run has written nothing.   *)
(***************************************************************************)
C17_FatalRecordEndsRun ==
    (pc # "ready" /\ impl = "T") =>
        IF pc = "aborted"
        THEN LET w == Writes(log)
                 k == Len(w)
             IN /\ output = NoNode
                /\ [i \in 1..k |-> w[i].text] \in FatalRecords
                /\ Len(log) > k
                /\ \A i \in 1..Len(log) : (log[i].ev = "write") = (i > Len(log) - k)
                /\ \A i \in 1..k : w[i].at = log[Len(log) - k].at
        ELSE /\ pc = "done"
             /\ ~Wrote(log)
             /\ output # NoNode

C17_Witness ==
    /\ impl = "T"
    /\ pc = "aborted"
    /\ input = Block(<<
           ExpressionStatement(
               PostfixUnary(PropertyAccess(createIdentifier("a"), "wo", FALSE), "++")),
           ExpressionStatement(
               createBinaryExpression(
                   PropertyAccess(NewExpression("Widget"), "value", FALSE), "+=",
                   createNumericLiteral("5")))>>)
    /\ Len(Writes(log)) = 1
    /\ VisitCount(log, <<2>>) = 0

\* The prefix the configuration asks src/src/transformer.ts for
ConfiguredPrefix ==
    IF config.customPrefix = <<>> THEN "__" ELSE config.customPrefix[1]

\* Member names of the input, and the names the run has synthesized
MemberNamesOf(n) ==
    {x.name : x \in {y \in Subtrees(n) :
        y.kind \in {"PropertyAccessExpression", "GetAccessor", "SetAccessor"}}}

SynthesizedNames ==
    {x.name : x \in {y \in Subtrees(output) :
        y.kind \in {"PropertyAccessExpression", "MethodDeclaration"}}}
    \ {x.name : x \in {y \in Subtrees(input) : y.kind = "PropertyAccessExpression"}}

(***************************************************************************)
(* C18.  In transformer.ts every name a run synthesizes is the configured  *)
(* prefix ("__" when none is configured), then "get" or "set", then the    *)
(* name of a member of the input; a renamed accessor declaration carries   *)
(* the very name the rewritten access to the same member in its body       *)
(* calls.                                                                  *)
(***************************************************************************)
C18_PrefixUniform ==
    (pc = "done" /\ impl = "T") =>
        /\ \A nm \in SynthesizedNames :
               \E m \in MemberNamesOf(input), verb \in {"get", "set"} :
                   nm = ConfiguredPrefix \o verb \o m
        /\ IsAccessor(input) =>
               /\ output.kind = "MethodDeclaration"
               /\ output.name = ConfiguredPrefix \o Verb(input) \o input.name
               /\ \A i \in DOMAIN input.kids :
                      LET access == IF input.kind = "GetAccessor" THEN input.kids[i]
                                    ELSE IF IsPlainAssignment(input.kids[i])
                                         THEN input.kids[i].kids[1]
                                         ELSE NoNode
                      IN (access.kind = "PropertyAccessExpression"
                          /\ access.name = input.name)
                             => /\ output.kids[i].kind = "CallExpression"
                                /\ output.kids[i].kids[1].name = output.name
        /\ (WritesAccess(input) /\ output.kind = "CallExpression") =>
               output.kids[1].name = ConfiguredPrefix \o "set" \o WrittenAccess(input).name

C18_Witness ==
    /\ impl = "T"
    /\ pc = "done"
    /\ config.customPrefix = <<"_">>
    /\ input.kind = "SetAccessor"
    /\ output.name = "_setvalue"
    /\ output.kids[2].kind = "CallExpression"
    /\ output.kids[2].kids[1].name = "_setvalue"

\* How many optional links (?. tokens) the tree n holds
RECURSIVE OptionalLinks(_), OptionalLinksFrom(_, _)
OptionalLinksFrom(kids, i) ==
    IF i > Len(kids) THEN 0
    ELSE OptionalLinks(kids[i]) + OptionalLinksFrom(kids, i + 1)

OptionalLinks(n) == (IF n.opt THEN 1 ELSE 0) + OptionalLinksFrom(n.kids, 1)

(***************************************************************************)
(* C19.  The read of a member of the user's classes that has a getter      *)
(* becomes a getter call whose link to the target is optional exactly when *)
(* the original access was, and the call holds no optional link the        *)
(* original access did not have.  (transformer.ts, part_003)               *)
(***************************************************************************)
C19_OptionalChainPreserved ==
    (/\ pc = "done"
     /\ impl \in {"T", "P3"}
     /\ input \in Accesses
     /\ input.name \in {"value", "ro"}) =>
        /\ output.kind = "CallExpression"
        /\ output.kids[1].kind = "PropertyAccessExpression"
        /\ output.kids[1].opt = input.opt
        /\ OptionalLinks(output) = OptionalLinks(input)

\* The paths of the member accesses of the tree at path p of root
RECURSIVE AccessPaths(_, _)
AccessPaths(root, p) ==
    (IF NodeAt(root, p).kind = "PropertyAccessExpression" THEN {p} ELSE {})
    \cup UNION {AccessPaths(root, Append(p, i)) : i \in DOMAIN NodeAt(root, p).kids}

\* The outermost wrapper chain around the node at p: parentheses and type
\* assertions of which the node under consideration is the direct sub-expression
RECURSIVE WrapperTop(_, _)
WrapperTop(root, p) ==
    IF /\ p # <<>>
       /\ NodeAt(root, Parent(p)).kind \in {"ParenthesizedExpression", "AsExpression"}
       /\ p = Append(Parent(p), 1)
    THEN WrapperTop(root, Parent(p))
    ELSE p

\* Write position as the spec defines it: the node is, or lies through
\* wrappers in, the left-hand side of a plain = assignment
WritePosition(root, p) ==
    LET top == WrapperTop(root, p) IN
    /\ top # <<>>
    /\ NodeAt(root, Parent(top)).kind = "BinaryExpression"
    /\ NodeAt(root, Parent(top)).op = "="
    /\ top = Append(Parent(top), 1)

\* What the running revision's member-access rule makes of the node at p
RuleResult(p) ==
    visitNode([root |-> input, config |-> config, impl |-> impl], p).node

RenamedToSetter(p) ==
    /\ RuleResult(p).kind = "PropertyAccessExpression"
    /\ RuleResult(p).name = Prefix \o "set" \o NodeAt(input, p).name

TurnedIntoGetterCall(p) ==
    /\ RuleResult(p).kind = "CallExpression"
    /\ RuleResult(p).kids[1].name = Prefix \o "get" \o NodeAt(input, p).name

(***************************************************************************)
(* C20.  The member-access rule renames an access to the synthesized       *)
(* setter name exactly when a setter is declared and the access is in      *)
(* write position (it is, or lies through wrappers in, the left-hand side  *)
(* of a plain = assignment); an access it rewritten otherwise, under a     *)
(* compound assignment, under == or on a right-hand side, becomes the      *)
(* getter call.  (part_003, part_001)                                      *)
(***************************************************************************)
C20_WritePositionClassified ==
    (pc # "ready" /\ impl \in {"P3", "P1"}) =>
        \A p \in AccessPaths(input, <<>>) :
            (RenamedToSetter(p) \/ TurnedIntoGetterCall(p)) =>
                (RenamedToSetter(p) <=>
                    (DeclaresSetter(NodeAt(input, p).name) /\ WritePosition(input, p)))

\* How many times one traversal handed the dispatcher the node at path p
Dispatches(p) == VisitCount(log, p)

(***************************************************************************)
(* C21.  During one traversal every member-access node of the input tree   *)
(* is dispatched to a rewrite rule at most once: the left-hand access of   *)
(* an assignment and the member accesses inside its target are not         *)
(* dispatched once while the enclosing node is transformed and again while *)
(* the replacement is built.  (transformer.ts, part_002)                   *)
(***************************************************************************)
C21_DispatchedAtMostOnce ==
    (pc # "ready" /\ impl \in {"T", "P2"}) =>
        \A p \in AccessPaths(input, <<>>) : Dispatches(p) <= 1

\* A call of a synthesized getter: target.<prefix>get<member>()
IsSynthesizedGetterCall(n) ==
    /\ n.kind = "CallExpression"
    /\ Len(n.kids) = 1
    /\ n.kids[1].kind = "PropertyAccessExpression"
    /\ \E m \in MemberNames : n.kids[1].name = Prefix \o GETTER_PREFIX \o m

IsSynthesizedSetterCall(n) ==
    /\ n.kind = "CallExpression"
    /\ Len(n.kids) = 2
    /\ n.kids[1].kind = "PropertyAccessExpression"
    /\ \E m \in MemberNames : n.kids[1].name = Prefix \o SETTER_PREFIX \o m

\* An expression without the parentheses around it
RECURSIVE Unwrapped(_)
Unwrapped(n) ==
    IF n.kind = "ParenthesizedExpression" THEN Unwrapped(n.kids[1]) ELSE n

\* n writes its first operand: an assignment, a compound assignment, or a
\* prefix or postfix increment or decrement
WritesOperand(n) ==
    \/ n.kind = "BinaryExpression" /\ isAssignmentOperator(n.op)
    \/ n.kind \in {"PrefixUnaryExpression", "PostfixUnaryExpression"}
          /\ n.op \in {"++", "--"}

\* The member the input writes is backed by an accessor of the program
WritesAccessorBackedMember ==
    /\ WritesOperand(input)
    /\ Unwrapped(input.kids[1]).kind = "PropertyAccessExpression"
    /\ LET m == Unwrapped(input.kids[1]).name
       IN DeclaresGetter(m) \/ DeclaresSetter(m)

(***************************************************************************)
(* C22.  In the output no synthesized getter call is the operand written  *)
(* by an assignment, a compound assignment or a prefix or postfix ++/--:   *)
(* a write to an accessor-backed member, prefix ++/-- and an assignment to *)
(* a getter-only member included, comes out as a setter call or with its   *)
(* original member access as the written operand.                          *)
(* (transformer.ts, part_003)                                              *)
(***************************************************************************)
C22_GetterCallNeverWritten ==
    (pc = "done" /\ impl \in {"T", "P3"}) =>
        /\ \A n \in Subtrees(output) :
               WritesOperand(n) => ~IsSynthesizedGetterCall(Unwrapped(n.kids[1]))
        /\ WritesAccessorBackedMember =>
               \/ IsSynthesizedSetterCall(output)
               \/ /\ WritesOperand(output)
                  /\ Unwrapped(output.kids[1]).kind = "PropertyAccessExpression"
                  /\ Unwrapped(output.kids[1]).name = Unwrapped(input.kids[1]).name

====
